---------------------------- MODULE Spec2Model ----------------------------
(***************************************************************************)
(* Model of desktop_app/main.py: the BLE notification callback that        *)
(* decodes six-float samples and fans them out onto two multiprocessing    *)
(* queues, the plotter's animation tick that drains one queue into rolling *)
(* line data, and the websocket handler that drains the other queue and    *)
(* answers each message with the latest sample.                            *)
(*                                                                         *)
(* Units.  Sample values are integers in thousandths (0.1 G is 100).  Time *)
(* stamps are integers in 1/598 s, so that S_BETWEEN_DATAPOINTS = 1/119.6 s*)
(* is exactly 5.  Axis limits of the y axes are in 1/100 of a value unit,  *)
(* so that the 10 % margin is computed without division.  Arithmetic is    *)
(* exact: the rounding of IEEE doubles is not modelled.                    *)
(***************************************************************************)
EXTENDS Integers, Sequences, FiniteSets, TLC

(* ------------------------------ bounds --------------------------------- *)

\* Samples decoded in one run (the program decodes for MAXIMUM_RUNTIME s).
MaxSamples == 3
\* Complete samples carried by one notification buffer.
MaxBatch == 2
\* Websocket messages answered in one run.
MaxRequests == 2
\* Capacity of the rolling window.  The program computes
\* int(floor(TIME_PLOTTED / S_BETWEEN_DATAPOINTS)) = 1196 (main.py:26); the
\* model keeps the same slicing with a capacity small enough to overflow.
NUMBER_OF_DATA_POINTS == 2

(* ------------------------- program constants --------------------------- *)

\* Time units per second: 1/119.6 s = 5/598 s.
TimeUnitsPerSecond == 598
\* main.py:24, in time units.
S_BETWEEN_DATAPOINTS == 5
\* main.py:23, in percent.
PLOT_MARGIN == 10
\* y limits are kept in 1/RangeScale of a value unit: PLOT_MARGIN / 100.
RangeScale == 100
\* main.py:244: the floor 0.5 of accel_delta, in value units.
AccelFloor == 500
\* main.py:252: the floor 10 of gyro_delta, in value units.
GyroFloor == 10000
\* struct.unpack("f", ...): bytes per float.
BytesPerFloat == 4
\* range(0, len(floats), 6): floats per DataPoint.
FloatsPerDataPoint == 6
\* main.py:25, in seconds.
TIME_PLOTTED == 10
\* main.py:239: max(x, default=10), in seconds.
DefaultMaxX == 10
\* main.py:311: values are sent with three decimals; value units per 1.0.
ValueUnit == 1000
\* main.py:140: set_ylim(-2, 2), in value units.
InitAccelYLim == 2000
\* main.py:158: set_ylim(-100, 100), in value units.
InitGyroYLim == 100000

(* ------------------------------ inputs --------------------------------- *)

\* The six floats of one sample on the wire, in the order
\* gyro_x, gyro_y, gyro_z, accel_x, accel_y, accel_z.
SampleA == <<1000, 2000, 3000, 100, 200, 300>>
SampleB == <<4000, 5000, 6000, 400, 500, 600>>
\* The device at rest: no rotation, 1 G on the z axis.
SampleRest == <<0, 0, 0, 0, 0, 1000>>
SampleValues == {SampleA, SampleB, SampleRest}

\* Floats that follow the last complete sample of a buffer, and bytes that
\* follow the last complete float.
ExtraFloats == {0, 1}
TailBytes == {0, 1}

RECURSIVE Flatten(_)
Flatten(ss) == IF ss = << >> THEN << >> ELSE Head(ss) \o Flatten(Tail(ss))

SeqsUpTo(S, n) == UNION {[1..k -> S] : k \in 0..n}

\* A notification buffer: the floats its 4-byte groups unpack to, and the
\* number of bytes left after the last group.
BuffersOf(samples) ==
    {[floats |-> Flatten(ss) \o [k \in 1..e |-> 0], tail |-> t] :
        ss \in SeqsUpTo(samples, MaxBatch), e \in ExtraFloats, t \in TailBytes}

Buffers == BuffersOf(SampleValues)

BufferLen(data) == BytesPerFloat * Len(data.floats) + data.tail

(* ------------------------------ state ---------------------------------- *)

VARIABLES
    \* Nano33BLE
    current_datapoint,  \* self.current_datapoint
    cb_pc,              \* "idle", "put_plot" (line 59..71), "put_serial" (line 72)
    cb_floats,          \* floats of the callback in progress
    cb_i,               \* loop variable i of the callback in progress
    cb_dp,              \* dp built by the iteration in progress
    cb_start,           \* current_datapoint when the callback in progress began
    \* multiprocessing queues: items put but not yet written to the pipe by
    \* the feeder thread, and items in the pipe
    plot_buffer, plot_pipe,
    serial_buffer, serial_pipe,
    \* whether close() was called on the producer's end of each queue; put
    \* on a closed multiprocessing.Queue raises ValueError
    plot_closed, serial_closed,
    \* Plotter
    plot_pc,            \* "idle", "drain" (line 195..200)
    plot_new_data,      \* new_data of animate
    x, accel_x_y, accel_y_y, accel_z_y, gyro_x_y, gyro_y_y, gyro_z_y,
    xlim, accel_ylim, gyro_ylim,
    plot_last,          \* history: whether animate has returned, and the
                        \* new_data of its latest call
    plot_snapshot,      \* history kept by DrainSpec only: the plot queue
                        \* when the latest call of animate began: the items
                        \* in the pipe (readable) and all items put and not
                        \* yet got (enqueued)
    \* WebsocketServer
    ws_pc,              \* "idle", "drain" (line 302..307)
    ws_conn,            \* connection whose message is being handled
    ws_new_data,        \* new_data of ws_handler
    ws_messages,        \* connection of every message received
    sent,               \* frames written by ws.send: [conn, payload, batch]
    \* history
    plot_put, serial_put,   \* every item put on each queue
    plot_got, serial_got    \* every item returned by get on each queue

producer_vars == <<current_datapoint, cb_pc, cb_floats, cb_i, cb_dp, cb_start>>
queue_vars == <<plot_buffer, plot_pipe, serial_buffer, serial_pipe,
                plot_closed, serial_closed>>
line_vars == <<x, accel_x_y, accel_y_y, accel_z_y, gyro_x_y, gyro_y_y, gyro_z_y>>
lim_vars == <<xlim, accel_ylim, gyro_ylim>>
plotter_vars == <<plot_pc, plot_new_data, line_vars, lim_vars, plot_last,
                  plot_snapshot>>
ws_vars == <<ws_pc, ws_conn, ws_new_data, ws_messages, sent>>
history_vars == <<plot_put, serial_put, plot_got, serial_got>>
vars == <<producer_vars, queue_vars, plotter_vars, ws_vars, history_vars>>

\* Open websocket connections.  Every ws_handler runs on the one event loop
\* of the server process and handles a message from its receipt to the
\* written frame without suspending, so one connection shows every
\* behaviour of the shared queue.
Conns == {"c1"}
NoConn == "none"

(* ------------------------------ helpers -------------------------------- *)

Max(a, b) == IF a >= b THEN a ELSE b
SeqMin(s) == CHOOSE m \in {s[i] : i \in DOMAIN s} : \A i \in DOMAIN s : m <= s[i]
SeqMax(s) == CHOOSE m \in {s[i] : i \in DOMAIN s} : \A i \in DOMAIN s : m >= s[i]

\* DataPoint.__init__
DataPoint(timestamp, gx, gy, gz, ax, ay, az) ==
    [timestamp |-> timestamp,
     gyro_x |-> gx, gyro_y |-> gy, gyro_z |-> gz,
     accel_x |-> ax, accel_y |-> ay, accel_z |-> az]

\* A counter that is incremented before the DataPoint is built.
TimestampPreIncrement(n) == (n + 1) * S_BETWEEN_DATAPOINTS

\* The timestamp of the sample built when the counter is n (line 60).
Timestamp(n) == n * S_BETWEEN_DATAPOINTS

\* A queue that hands out the newest item first.
QueuePutFront(q, item) == <<item>> \o q

\* A put whose item is lost: it never reaches the feeder buffer.
QueuePutLost(q, item) == q

\* mp.Queue.put, and the item and rest of a successful get(False).
QueuePut(q, item) == Append(q, item)
QueueFront(q) == Head(q)
QueueRest(q) == Tail(q)


\* No slicing: the array keeps growing.
KeepAll(s, n) == s

\* x[:n], the first n items instead of the last.
FirstN(s, n) == IF n = 0 \/ Len(s) <= n THEN s ELSE SubSeq(s, 1, n)

\* x[-n:] of a Python sequence (n >= 0): the last n items; everything when
\* n = 0 or n >= len(x).
LastN(s, n) ==
    IF n = 0 \/ Len(s) <= n THEN s ELSE SubSeq(s, Len(s) - n + 1, Len(s))

\* a + b + c of three numpy arrays of one length.
ArraySum(a, b, c) == [i \in DOMAIN a |-> a[i] + b[i] + c[i]]

\* The proportional margin alone, without its floor.
MarginNoFloor(lo, hi, floor) == (hi - lo) * PLOT_MARGIN

\* max((hi - lo) * (PLOT_MARGIN / 100), floor), in 1/RangeScale value units.
Margin(lo, hi, floor) == Max((hi - lo) * PLOT_MARGIN, floor * RangeScale)

\* The y limits of a group from its three arrays (lines 241..255).
GroupYLim(a, b, c, floor) ==
    LET lo == SeqMin(ArraySum(a, b, c))
        hi == SeqMax(ArraySum(a, b, c))
        delta == Margin(lo, hi, floor)
    IN  <<lo * RangeScale - delta, hi * RangeScale + delta>>

\* min(x, default=0), max(x, default=10) (lines 238..239).
XLim(xs) ==
    <<IF xs = << >> THEN 0 ELSE SeqMin(xs),
      IF xs = << >> THEN DefaultMaxX * TimeUnitsPerSecond ELSE SeqMax(xs)>>

\* The accel_y column filled from dp.accel_x.
ColumnCopyPaste(new_data, f) ==
    [i \in DOMAIN new_data |->
        new_data[i][IF f = "accel_y" THEN "accel_x" ELSE f]]

\* One field of every DataPoint of a batch (lines 215..226).
Column(new_data, f) == [i \in DOMAIN new_data |-> new_data[i][f]]

\* np.append(old, new)[-NUMBER_OF_DATA_POINTS:] (lines 228..236).
Merge(old, new) == LastN(old \o new, NUMBER_OF_DATA_POINTS)

\* The plotter's line data and axis limits.
PlotState ==
    [x |-> x,
     accel_x_y |-> accel_x_y, accel_y_y |-> accel_y_y, accel_z_y |-> accel_z_y,
     gyro_x_y |-> gyro_x_y, gyro_y_y |-> gyro_y_y, gyro_z_y |-> gyro_z_y,
     xlim |-> xlim, accel_ylim |-> accel_ylim, gyro_ylim |-> gyro_ylim]

\* An empty drain that sets the lines to the (empty) new data.
AnimateEmptyClears(p) ==
    [p EXCEPT !.x = << >>,
              !.accel_x_y = << >>, !.accel_y_y = << >>, !.accel_z_y = << >>,
              !.gyro_x_y = << >>, !.gyro_y_y = << >>, !.gyro_z_y = << >>]

\* animate with an empty drain: the early return of lines 202..203.
AnimateEmpty(p) == p

\* animate with a non-empty drain (lines 205..279).
AnimateMerge(p, new_data) ==
    LET nx  == Merge(p.x, Column(new_data, "timestamp"))
        nax == Merge(p.accel_x_y, Column(new_data, "accel_x"))
        nay == Merge(p.accel_y_y, Column(new_data, "accel_y"))
        naz == Merge(p.accel_z_y, Column(new_data, "accel_z"))
        ngx == Merge(p.gyro_x_y, Column(new_data, "gyro_x"))
        ngy == Merge(p.gyro_y_y, Column(new_data, "gyro_y"))
        ngz == Merge(p.gyro_z_y, Column(new_data, "gyro_z"))
    IN  [x |-> nx,
         accel_x_y |-> nax, accel_y_y |-> nay, accel_z_y |-> naz,
         gyro_x_y |-> ngx, gyro_y_y |-> ngy, gyro_z_y |-> ngz,
         xlim |-> XLim(nx),
         accel_ylim |-> GroupYLim(nax, nay, naz, AccelFloor),
         gyro_ylim |-> GroupYLim(ngx, ngy, ngz, GyroFloor)]

\* Plotter.animate after its drain (lines 202..281).
Animate(p, new_data) ==
    IF Len(new_data) = 0 THEN AnimateEmpty(p) ELSE AnimateMerge(p, new_data)

\* f"{v:.3f}" of a value given in thousandths.
Pad3(n) ==
    IF n < 10 THEN "00" \o ToString(n)
    ELSE IF n < 100 THEN "0" \o ToString(n) ELSE ToString(n)
Format3(v) ==
    LET a == IF v < 0 THEN -v ELSE v
    IN  (IF v < 0 THEN "-" ELSE "") \o ToString(a \div ValueUnit) \o "."
            \o Pad3(a % ValueUnit)

\* The text of line 311.
Payload(dp) ==
    Format3(dp.gyro_x) \o ";" \o Format3(dp.gyro_y) \o ";" \o Format3(dp.gyro_z)
        \o ";" \o Format3(dp.accel_x) \o ";" \o Format3(dp.accel_y)
        \o ";" \o Format3(dp.accel_z)

\* The text of line 313.
Sentinel == "0.000;0.000;0.000;0.000;0.000;0.000"

\* The oldest item of the batch instead of the newest.
DataToSendOldest(new_data) == new_data[1]

\* data_to_send = new_data[-1] (line 310).
DataToSend(new_data) == new_data[Len(new_data)]

\* An empty batch whose IndexError is not caught: nothing is sent.
FramesNoFallback(new_data) ==
    IF Len(new_data) > 0 THEN <<Payload(DataToSend(new_data))>> ELSE << >>

\* The frames ws.send writes for one message (lines 309..313): new_data[-1]
\* raises IndexError on an empty deque and the bare except sends the
\* zero text.
Frames(new_data) ==
    IF Len(new_data) > 0 THEN <<Payload(DataToSend(new_data))>> ELSE <<Sentinel>>

(* ------------------------------- Init ---------------------------------- *)

NoDp == DataPoint(0, 0, 0, 0, 0, 0, 0)

NoSnapshot == [readable |-> << >>, enqueued |-> << >>]

Init ==
    /\ current_datapoint = 0
    /\ cb_pc = "idle" /\ cb_floats = << >> /\ cb_i = 0 /\ cb_dp = NoDp
    /\ cb_start = 0
    /\ plot_buffer = << >> /\ plot_pipe = << >>
    /\ serial_buffer = << >> /\ serial_pipe = << >>
    /\ plot_closed = FALSE /\ serial_closed = FALSE
    /\ plot_pc = "idle" /\ plot_new_data = << >>
    /\ x = << >>
    /\ accel_x_y = << >> /\ accel_y_y = << >> /\ accel_z_y = << >>
    /\ gyro_x_y = << >> /\ gyro_y_y = << >> /\ gyro_z_y = << >>
    /\ xlim = <<0, NUMBER_OF_DATA_POINTS * TimeUnitsPerSecond>>
    /\ accel_ylim = <<-InitAccelYLim * RangeScale, InitAccelYLim * RangeScale>>
    /\ gyro_ylim = <<-InitGyroYLim * RangeScale, InitGyroYLim * RangeScale>>
    /\ plot_last = [returned |-> FALSE, new_data |-> << >>]
    /\ plot_snapshot = NoSnapshot
    /\ ws_pc = "idle" /\ ws_conn = NoConn /\ ws_new_data = << >>
    /\ ws_messages = << >> /\ sent = << >>
    /\ plot_put = << >> /\ serial_put = << >>
    /\ plot_got = << >> /\ serial_got = << >>

(* ----------------------------- Nano33BLE ------------------------------- *)

\* What the callback leaves behind when it returns or raises.
CallbackEnds(counter) ==
    /\ cb_pc' = "idle" /\ cb_floats' = << >> /\ cb_i' = 0 /\ cb_dp' = NoDp
    /\ cb_start' = counter

\* callback_data is called with a buffer: the unpack loop of lines 54..57.
\* struct.unpack raises struct.error on a last group of fewer than 4 bytes;
\* an empty deque of floats ends the call at once.
callback_data(data) ==
    /\ cb_pc = "idle"
    /\ current_datapoint + (Len(data.floats) \div FloatsPerDataPoint) <= MaxSamples
    /\ IF data.tail # 0 \/ Len(data.floats) = 0
       THEN UNCHANGED <<cb_pc, cb_floats, cb_i, cb_dp, cb_start>>
       ELSE /\ cb_pc' = "put_plot"
            /\ cb_floats' = data.floats
            /\ cb_i' = 0
            /\ cb_start' = current_datapoint
            /\ UNCHANGED cb_dp
    /\ UNCHANGED <<current_datapoint, queue_vars, plotter_vars, ws_vars, history_vars>>

\* The counter advanced at the top of the loop body, before floats[i + k]
\* are read: the IndexError leaves it one ahead.
callback_put_plot_counts_first ==
    /\ cb_pc = "put_plot"
    /\ IF cb_i + FloatsPerDataPoint > Len(cb_floats)
       THEN /\ CallbackEnds(current_datapoint + 1)
            /\ current_datapoint' = current_datapoint + 1
            /\ UNCHANGED <<plot_buffer, plot_put>>
       ELSE LET dp == DataPoint(Timestamp(current_datapoint),
                                cb_floats[cb_i + 1], cb_floats[cb_i + 2],
                                cb_floats[cb_i + 3], cb_floats[cb_i + 4],
                                cb_floats[cb_i + 5], cb_floats[cb_i + 6])
            IN  /\ current_datapoint' = current_datapoint + 1
                /\ IF plot_closed
                   THEN /\ CallbackEnds(current_datapoint + 1)
                        /\ UNCHANGED <<plot_buffer, plot_put>>
                   ELSE /\ cb_dp' = dp
                        /\ plot_buffer' = QueuePut(plot_buffer, dp)
                        /\ plot_put' = Append(plot_put, dp)
                        /\ cb_pc' = "put_serial"
                        /\ UNCHANGED <<cb_floats, cb_i, cb_start>>
    /\ UNCHANGED <<plot_pipe, serial_buffer, serial_pipe, plot_closed,
                   serial_closed, plotter_vars, ws_vars,
                   serial_put, plot_got, serial_got>>

\* One iteration of the loop of line 59 up to plot_queue.put (line 71).
\* floats[i + k] raises IndexError when the deque ends before it.  put on a
\* closed queue raises ValueError after line 68 has advanced the counter;
\* nothing in callback_data catches it.
callback_put_plot ==
    /\ cb_pc = "put_plot"
    /\ IF cb_i + FloatsPerDataPoint > Len(cb_floats)
       THEN /\ CallbackEnds(current_datapoint)
            /\ UNCHANGED <<current_datapoint, plot_buffer, plot_put>>
       ELSE LET dp == DataPoint(Timestamp(current_datapoint),
                                cb_floats[cb_i + 1], cb_floats[cb_i + 2],
                                cb_floats[cb_i + 3], cb_floats[cb_i + 4],
                                cb_floats[cb_i + 5], cb_floats[cb_i + 6])
            IN  /\ current_datapoint' = current_datapoint + 1
                /\ IF plot_closed
                   THEN /\ CallbackEnds(current_datapoint + 1)
                        /\ UNCHANGED <<plot_buffer, plot_put>>
                   ELSE /\ cb_dp' = dp
                        /\ plot_buffer' = QueuePut(plot_buffer, dp)
                        /\ plot_put' = Append(plot_put, dp)
                        /\ cb_pc' = "put_serial"
                        /\ UNCHANGED <<cb_floats, cb_i, cb_start>>
    /\ UNCHANGED <<plot_pipe, serial_buffer, serial_pipe, plot_closed,
                   serial_closed, plotter_vars, ws_vars,
                   serial_put, plot_got, serial_got>>

\* The sample put on the serial queue twice.
callback_put_serial_twice ==
    /\ cb_pc = "put_serial"
    /\ IF serial_closed
       THEN /\ CallbackEnds(current_datapoint)
            /\ UNCHANGED <<serial_buffer, serial_put>>
       ELSE /\ serial_buffer' = QueuePut(QueuePut(serial_buffer, cb_dp), cb_dp)
            /\ serial_put' = Append(Append(serial_put, cb_dp), cb_dp)
            /\ IF cb_i + FloatsPerDataPoint < Len(cb_floats)
               THEN /\ cb_pc' = "put_plot"
                    /\ cb_i' = cb_i + FloatsPerDataPoint
                    /\ UNCHANGED <<cb_floats, cb_dp, cb_start>>
               ELSE CallbackEnds(current_datapoint)
    /\ UNCHANGED <<current_datapoint, plot_buffer, plot_pipe, serial_pipe,
                   plot_closed, serial_closed,
                   plotter_vars, ws_vars, plot_put, plot_got, serial_got>>

\* serial_queue.put (line 72) and the step of the loop.  put on a closed
\* queue raises ValueError out of the callback.
callback_put_serial ==
    /\ cb_pc = "put_serial"
    /\ IF serial_closed
       THEN /\ CallbackEnds(current_datapoint)
            /\ UNCHANGED <<serial_buffer, serial_put>>
       ELSE /\ serial_buffer' = QueuePut(serial_buffer, cb_dp)
            /\ serial_put' = Append(serial_put, cb_dp)
            /\ IF cb_i + FloatsPerDataPoint < Len(cb_floats)
               THEN /\ cb_pc' = "put_plot"
                    /\ cb_i' = cb_i + FloatsPerDataPoint
                    /\ UNCHANGED <<cb_floats, cb_dp, cb_start>>
               ELSE CallbackEnds(current_datapoint)
    /\ UNCHANGED <<current_datapoint, plot_buffer, plot_pipe, serial_pipe,
                   plot_closed, serial_closed,
                   plotter_vars, ws_vars, plot_put, plot_got, serial_got>>

(* ------------------------ multiprocessing.Queue ------------------------ *)

\* The feeder thread of a queue writes the oldest buffered item to the pipe.
feed_plot ==
    /\ plot_buffer # << >>
    /\ plot_pipe' = Append(plot_pipe, Head(plot_buffer))
    /\ plot_buffer' = Tail(plot_buffer)
    /\ UNCHANGED <<producer_vars, serial_buffer, serial_pipe, plot_closed,
                   serial_closed, plotter_vars, ws_vars, history_vars>>

feed_serial ==
    /\ serial_buffer # << >>
    /\ serial_pipe' = Append(serial_pipe, Head(serial_buffer))
    /\ serial_buffer' = Tail(serial_buffer)
    /\ UNCHANGED <<producer_vars, plot_buffer, plot_pipe, plot_closed,
                   serial_closed, plotter_vars, ws_vars, history_vars>>

\* close() on the producer's end of a queue.  Nothing in main.py calls it:
\* it is the event "the channel becomes unavailable", and only ClosedSpec
\* lets it happen.  Items already buffered are still flushed by the feeder.
close_plot ==
    /\ ~plot_closed
    /\ plot_closed' = TRUE
    /\ UNCHANGED <<producer_vars, plot_buffer, plot_pipe, serial_buffer,
                   serial_pipe, serial_closed, plotter_vars, ws_vars,
                   history_vars>>

close_serial ==
    /\ ~serial_closed
    /\ serial_closed' = TRUE
    /\ UNCHANGED <<producer_vars, plot_buffer, plot_pipe, serial_buffer,
                   serial_pipe, plot_closed, plotter_vars, ws_vars,
                   history_vars>>

(* ------------------------------ Plotter -------------------------------- *)

\* The animation timer calls animate: lines 183..193.
animate_call(snapshot) ==
    /\ plot_pc = "idle"
    /\ plot_pc' = "drain"
    /\ plot_new_data' = << >>
    /\ plot_snapshot' = snapshot
    /\ UNCHANGED <<producer_vars, queue_vars, line_vars, lim_vars, plot_last,
                   ws_vars, history_vars>>

animate_start == animate_call(NoSnapshot)

\* The same call, with the state of the plot queue at that instant recorded.
animate_start_observed ==
    animate_call([readable |-> plot_pipe,
                  enqueued |-> plot_pipe \o plot_buffer])

\* A plotter that was handed the serial queue: its get takes from the
\* websocket server's channel.
animate_get_serial_queue ==
    /\ plot_pc = "drain"
    /\ serial_pipe # << >>
    /\ plot_new_data' = Append(plot_new_data, QueueFront(serial_pipe))
    /\ serial_got' = Append(serial_got, QueueFront(serial_pipe))
    /\ serial_pipe' = QueueRest(serial_pipe)
    /\ UNCHANGED <<producer_vars, plot_buffer, plot_pipe, serial_buffer,
                   plot_closed, serial_closed,
                   plot_pc, line_vars, lim_vars, plot_last, plot_snapshot,
                   ws_vars, plot_put, serial_put, plot_got>>

\* data_queue.get(False) returns an item (line 197).
animate_get ==
    /\ plot_pc = "drain"
    /\ plot_pipe # << >>
    /\ plot_new_data' = Append(plot_new_data, QueueFront(plot_pipe))
    /\ plot_got' = Append(plot_got, QueueFront(plot_pipe))
    /\ plot_pipe' = QueueRest(plot_pipe)
    /\ UNCHANGED <<producer_vars, plot_buffer, serial_buffer, serial_pipe,
                   plot_closed, serial_closed,
                   plot_pc, line_vars, lim_vars, plot_last, plot_snapshot,
                   ws_vars, plot_put, serial_put, serial_got>>

\* A drain with a cap of one item: the loop also ends once it holds an item,
\* whatever is left in the pipe.
animate_empty_capped ==
    /\ plot_pc = "drain"
    /\ (plot_pipe = << >> \/ Len(plot_new_data) >= 1)
    /\ \E p \in {Animate(PlotState, plot_new_data)} :
           /\ x' = p.x
           /\ accel_x_y' = p.accel_x_y
           /\ accel_y_y' = p.accel_y_y
           /\ accel_z_y' = p.accel_z_y
           /\ gyro_x_y' = p.gyro_x_y
           /\ gyro_y_y' = p.gyro_y_y
           /\ gyro_z_y' = p.gyro_z_y
           /\ xlim' = p.xlim
           /\ accel_ylim' = p.accel_ylim
           /\ gyro_ylim' = p.gyro_ylim
    /\ plot_pc' = "idle"
    /\ plot_new_data' = << >>
    /\ plot_last' = [returned |-> TRUE, new_data |-> plot_new_data]
    /\ UNCHANGED <<producer_vars, queue_vars, plot_snapshot, ws_vars,
                   history_vars>>

\* data_queue.get(False) raises Empty (line 199): the rest of animate.
animate_empty ==
    /\ plot_pc = "drain"
    /\ plot_pipe = << >>
    /\ \E p \in {Animate(PlotState, plot_new_data)} :
           /\ x' = p.x
           /\ accel_x_y' = p.accel_x_y
           /\ accel_y_y' = p.accel_y_y
           /\ accel_z_y' = p.accel_z_y
           /\ gyro_x_y' = p.gyro_x_y
           /\ gyro_y_y' = p.gyro_y_y
           /\ gyro_z_y' = p.gyro_z_y
           /\ xlim' = p.xlim
           /\ accel_ylim' = p.accel_ylim
           /\ gyro_ylim' = p.gyro_ylim
    /\ plot_pc' = "idle"
    /\ plot_new_data' = << >>
    /\ plot_last' = [returned |-> TRUE, new_data |-> plot_new_data]
    /\ UNCHANGED <<producer_vars, queue_vars, plot_snapshot, ws_vars,
                   history_vars>>

(* --------------------------- WebsocketServer --------------------------- *)

\* A message arrives on connection c (lines 298..300).
ws_message(c) ==
    /\ ws_pc = "idle"
    /\ Len(ws_messages) < MaxRequests
    /\ ws_pc' = "drain"
    /\ ws_conn' = c
    /\ ws_new_data' = << >>
    /\ ws_messages' = Append(ws_messages, c)
    /\ UNCHANGED <<producer_vars, queue_vars, plotter_vars, sent, history_vars>>

\* data_queue.get(False) returns an item (line 304).
ws_get ==
    /\ ws_pc = "drain"
    /\ serial_pipe # << >>
    /\ ws_new_data' = Append(ws_new_data, QueueFront(serial_pipe))
    /\ serial_got' = Append(serial_got, QueueFront(serial_pipe))
    /\ serial_pipe' = QueueRest(serial_pipe)
    /\ UNCHANGED <<producer_vars, plot_buffer, plot_pipe, serial_buffer,
                   plot_closed, serial_closed,
                   plotter_vars, ws_pc, ws_conn, ws_messages, sent,
                   plot_put, serial_put, plot_got>>

\* A handler whose get waits for an item (get(True)): on an empty pipe it
\* never raises Empty and the handler does not go on.
ws_send_blocking_get ==
    /\ ws_pc = "drain"
    /\ serial_pipe = << >>
    /\ FALSE
    /\ UNCHANGED vars

\* data_queue.get(False) raises Empty (line 306): lines 309..313.
ws_send ==
    /\ ws_pc = "drain"
    /\ serial_pipe = << >>
    /\ sent' = sent \o [k \in DOMAIN Frames(ws_new_data) |->
                          [conn |-> ws_conn, payload |-> Frames(ws_new_data)[k],
                           batch |-> ws_new_data]]
    /\ ws_pc' = "idle"
    /\ ws_conn' = NoConn
    /\ ws_new_data' = << >>
    /\ UNCHANGED <<producer_vars, queue_vars, plotter_vars, ws_messages,
                   history_vars>>

(* ---------------------------- specification ---------------------------- *)

Next ==
    \/ \E data \in Buffers : callback_data(data)
    \/ callback_put_plot
    \/ callback_put_serial
    \/ feed_plot
    \/ feed_serial
    \/ animate_start
    \/ animate_get
    \/ animate_empty
    \/ \E c \in Conns : ws_message(c)
    \/ ws_get
    \/ ws_send

Spec == Init /\ [][Next]_vars

\* The producer and the plotter alone: no websocket message ever arrives,
\* so the serial queue is only written.
PlotNext ==
    \/ \E data \in Buffers : callback_data(data)
    \/ callback_put_plot
    \/ callback_put_serial
    \/ feed_plot
    \/ animate_start
    \/ animate_get
    \/ animate_empty

PlotSpec == Init /\ [][PlotNext]_vars

\* The producer and the websocket server alone: the animation timer never
\* fires, so the plot queue is only written.
PublisherNext ==
    \/ \E data \in Buffers : callback_data(data)
    \/ callback_put_plot
    \/ callback_put_serial
    \/ feed_serial
    \/ \E c \in Conns : ws_message(c)
    \/ ws_get
    \/ ws_send

PublisherSpec == Init /\ [][PublisherNext]_vars

\* The three processes with every sample carrying the same six values:
\* samples differ by their timestamps alone.
FanoutNext ==
    \/ \E data \in BuffersOf({SampleA}) : callback_data(data)
    \/ callback_put_plot
    \/ callback_put_serial
    \/ feed_plot
    \/ feed_serial
    \/ animate_start
    \/ animate_get
    \/ animate_empty
    \/ \E c \in Conns : ws_message(c)
    \/ ws_get
    \/ ws_send

FanoutSpec == Init /\ [][FanoutNext]_vars

\* The step animate_empty as the plotter's program counter shows it: no
\* other action takes plot_pc from "drain" to "idle", and animate_empty can
\* be taken whenever plot_pc is "drain" and the pipe is empty.
animate_returns ==
    plot_pc = "drain" /\ plot_pipe = << >> /\ plot_pc' = "idle"

\* All three processes, each consumer going on with the drain it has begun:
\* a process that can take its next step is not held back for ever.  When
\* the timer fires and when messages arrive is left open.
DrainFairSpec ==
    /\ FanoutSpec
    /\ WF_vars(animate_get) /\ WF_plot_pc(animate_returns)
    /\ WF_vars(ws_get) /\ WF_vars(ws_send)

\* All three processes, with every step that does not wait for the outside
\* world taken in the end: a callback in progress goes on, the feeder
\* threads write what is buffered, the animation timer fires again and
\* again (FuncAnimation, line 118), and a drain that has begun goes on.
\* When buffers arrive from the device and when websocket messages arrive
\* is left open.
DeliverySpec ==
    /\ FanoutSpec
    /\ WF_vars(callback_put_plot) /\ WF_vars(callback_put_serial)
    /\ WF_vars(feed_plot) /\ WF_vars(feed_serial)
    /\ WF_vars(animate_start)
    /\ WF_vars(animate_get) /\ WF_plot_pc(animate_returns)
    /\ WF_vars(ws_get) /\ WF_vars(ws_send)

\* The producer and the plotter, with the plot queue recorded at the start
\* of every drain.
DrainNext ==
    \/ \E data \in Buffers : callback_data(data)
    \/ callback_put_plot
    \/ callback_put_serial
    \/ feed_plot
    \/ animate_start_observed
    \/ animate_get
    \/ animate_empty

DrainSpec == Init /\ [][DrainNext]_vars

\* The producer and the feeder threads, with either queue closed at any
\* moment: the producer's behaviour once a channel is unavailable.
ClosedNext ==
    \/ \E data \in Buffers : callback_data(data)
    \/ callback_put_plot
    \/ callback_put_serial
    \/ feed_plot
    \/ feed_serial
    \/ close_plot
    \/ close_serial

ClosedSpec == Init /\ [][ClosedNext]_vars

TypeOK ==
    /\ current_datapoint \in 0..MaxSamples
    /\ cb_pc \in {"idle", "put_plot", "put_serial"}
    /\ plot_pc \in {"idle", "drain"}
    /\ ws_pc \in {"idle", "drain"}
    /\ Len(sent) <= MaxRequests

(* ------------------------------ claims --------------------------------- *)

\* Bytes of one sample on the wire.
RecordBytes == BytesPerFloat * FloatsPerDataPoint

\* The callback in progress was given a buffer of a length that is a
\* positive multiple of 24 bytes.
ValidInProgress ==
    cb_pc # "idle" /\ (BytesPerFloat * Len(cb_floats)) % RecordBytes = 0

\* The k-th item ever put on either queue carries timestamp (k-1) * period.
IndicesContiguous ==
    /\ \A k \in DOMAIN plot_put :
          plot_put[k].timestamp = (k - 1) * S_BETWEEN_DATAPOINTS
    /\ \A k \in DOMAIN serial_put :
          serial_put[k].timestamp = (k - 1) * S_BETWEEN_DATAPOINTS

\* A callback on a valid buffer returns having advanced the counter, and
\* put on each queue, exactly len(buffer)/24 samples.
ValidCallProducesAll ==
    (ValidInProgress /\ cb_pc' = "idle") =>
        /\ current_datapoint' - cb_start = Len(cb_floats) \div FloatsPerDataPoint
        /\ Len(plot_put') - cb_start = Len(cb_floats) \div FloatsPerDataPoint
        /\ Len(serial_put') - cb_start = Len(cb_floats) \div FloatsPerDataPoint

\* C1: every callback_data call on a buffer whose length is a positive
\* multiple of 24 bytes produces exactly len(buffer)/24 samples, and the k-th
\* sample ever decoded carries index k-1 and timestamp (k-1) * nominal period,
\* starting at 0.
C1_ContiguousIndices == [](IndicesContiguous) /\ [][ValidCallProducesAll]_vars

\* The second sample of a 48-byte buffer has been put on the plot queue, in
\* a call that began after an earlier call had decoded one sample.
C1_Witness ==
    /\ cb_pc = "put_serial"
    /\ Len(cb_floats) = 2 * FloatsPerDataPoint
    /\ cb_i = FloatsPerDataPoint
    /\ cb_start = 1
    /\ current_datapoint = 3
    /\ cb_dp.timestamp = 2 * S_BETWEEN_DATAPOINTS

\* callback_data is called with a buffer whose length is not a multiple of
\* 24 bytes, or such a call is in progress.
BadLengthCall ==
    \/ \E data \in Buffers :
          BufferLen(data) % RecordBytes # 0 /\ callback_data(data)
    \/ cb_pc # "idle" /\ (BytesPerFloat * Len(cb_floats)) % RecordBytes # 0

\* C2: a buffer whose length is not a multiple of 24 bytes (28 and 52
\* included) makes callback_data enqueue nothing on either channel and leave
\* current_datapoint unchanged.
C2_BadLengthDecodesNothing ==
    [][BadLengthCall => UNCHANGED <<current_datapoint, plot_put, serial_put>>]_vars

\* The batches of the frames sent so far, one after the other.
RECURSIVE ConcatBatches(_)
ConcatBatches(frames) ==
    IF frames = << >> THEN << >>
    ELSE Head(frames).batch \o ConcatBatches(Tail(frames))

\* The last n items of a sequence of at least n items.
Suffix(s, n) == SubSeq(s, Len(s) - n + 1, Len(s))

StrictlyIncreasingTimestamps(s) ==
    \A i, j \in DOMAIN s : i < j => s[i].timestamp < s[j].timestamp

\* Every sample put on a queue is, in put order, first in the feeder buffer,
\* then in the pipe, then returned by get; both queues are put the same
\* samples; what a drain holds is the tail of what get returned.
FanoutExactlyOnce ==
    /\ Len(plot_put) = current_datapoint
    /\ plot_put = serial_put \o (IF cb_pc = "put_serial" THEN <<cb_dp>> ELSE << >>)
    /\ plot_got \o plot_pipe \o plot_buffer = plot_put
    /\ serial_got \o serial_pipe \o serial_buffer = serial_put
    /\ StrictlyIncreasingTimestamps(plot_got)
    /\ StrictlyIncreasingTimestamps(serial_got)
    /\ Len(plot_new_data) <= Len(plot_got)
    /\ Suffix(plot_got, Len(plot_new_data)) = plot_new_data
    /\ ConcatBatches(sent) \o ws_new_data = serial_got

\* C3: draining the plot channel and draining the publisher channel each
\* yield exactly one copy of every decoded sample, in decode order: nothing
\* is lost, duplicated or reordered within a channel.
C3_ExactlyOncePerChannel == FanoutExactlyOnce

\* Three samples were decoded and both consumers have drained all of them.
C3_Witness ==
    /\ current_datapoint = 3
    /\ cb_pc = "idle"
    /\ plot_got = plot_put /\ Len(plot_got) = 3
    /\ serial_got = serial_put /\ Len(serial_got) = 3

Values(dp) ==
    <<dp.gyro_x, dp.gyro_y, dp.gyro_z, dp.accel_x, dp.accel_y, dp.accel_z>>

\* Every frame answers with the newest sample of the batch its request
\* drained; the batches are, in order, what get returned; a request is
\* answered with at most one frame.
LatestOfBatch ==
    /\ \A k \in DOMAIN sent :
          sent[k].batch # << >> =>
              sent[k].payload = Payload(sent[k].batch[Len(sent[k].batch)])
    /\ \A k \in DOMAIN sent :
          (/\ Len(sent[k].batch) = 2
           /\ Values(sent[k].batch[1]) = SampleA
           /\ Values(sent[k].batch[2]) = SampleB)
              => sent[k].payload = "4.000;5.000;6.000;0.400;0.500;0.600"
    /\ ConcatBatches(sent) \o ws_new_data = serial_got
    /\ Len(sent) <= Len(ws_messages)

\* A frame is written only when get(False) has raised Empty.
SendsWhenDrained == sent' # sent => serial_pipe = << >>

C5_SentinelOnEmptyDrain ==
    /\ \A k \in DOMAIN sent :
          sent[k].batch = << >> =>
              sent[k].payload = "0.000;0.000;0.000;0.000;0.000;0.000"
    /\ Len(sent) = Len(ws_messages) - (IF ws_pc = "drain" THEN 1 ELSE 0)
    /\ \A k \in DOMAIN sent : sent[k].conn = ws_messages[k]

\* A request that came after a sample had been published drained nothing
\* and was answered with the all-zero text.
C5_Witness ==
    /\ Len(sent) = 2
    /\ sent[1].batch # << >>
    /\ sent[2].batch = << >>
    /\ sent[2].payload = "0.000;0.000;0.000;0.000;0.000;0.000"
    /\ ws_pc = "idle"

AllSeries ==
    <<x, accel_x_y, accel_y_y, accel_z_y, gyro_x_y, gyro_y_y, gyro_z_y>>

NonDecreasing(s) == \A i, j \in DOMAIN s : i < j => s[i] <= s[j]

\* C6: in every reachable state each plotted series (the time axis and the
\* six value series) holds at most NUMBER_OF_DATA_POINTS entries and the
\* timestamps of the window are in non-decreasing order, whatever the sizes
\* of the drained batches.
C6_WindowBounded ==
    /\ \A k \in DOMAIN AllSeries : Len(AllSeries[k]) <= NUMBER_OF_DATA_POINTS
    /\ NonDecreasing(x)

\* The latest tick merged one batch larger than the window.
C6_Witness ==
    /\ plot_pc = "idle"
    /\ plot_last.returned
    /\ Len(plot_last.new_data) > NUMBER_OF_DATA_POINTS
    /\ Len(x) = NUMBER_OF_DATA_POINTS

\* The samples merged by the ticks that have returned: what get returned,
\* less the drain in progress.
Merged == SubSeq(plot_got, 1, Len(plot_got) - Len(plot_new_data))

\* The window is the last NUMBER_OF_DATA_POINTS samples of s, in order.
WindowIsTailOf(s) ==
    /\ \A k \in DOMAIN AllSeries : Len(AllSeries[k]) = NUMBER_OF_DATA_POINTS
    /\ \A i \in 1..NUMBER_OF_DATA_POINTS :
          LET dp == s[Len(s) - NUMBER_OF_DATA_POINTS + i]
          IN  /\ x[i] = dp.timestamp
              /\ accel_x_y[i] = dp.accel_x
              /\ accel_y_y[i] = dp.accel_y
              /\ accel_z_y[i] = dp.accel_z
              /\ gyro_x_y[i] = dp.gyro_x
              /\ gyro_y_y[i] = dp.gyro_y
              /\ gyro_z_y[i] = dp.gyro_z

\* Nothing decoded is still on its way to the plotter.
PlotChannelDrained ==
    /\ cb_pc = "idle"
    /\ plot_buffer = << >> /\ plot_pipe = << >> /\ plot_new_data = << >>

\* C7: once more than NUMBER_OF_DATA_POINTS samples have been merged, each
\* series holds exactly that many entries and they are the most recent
\* samples merged, in decode order; when no decoded sample is still in the
\* channel these are the most recently decoded samples.
C7_MostRecentRetained ==
    /\ Len(Merged) > NUMBER_OF_DATA_POINTS => WindowIsTailOf(Merged)
    /\ (PlotChannelDrained /\ current_datapoint > NUMBER_OF_DATA_POINTS)
          => WindowIsTailOf(plot_put)

\* Three samples were merged by more than one tick and the window holds the
\* last two.
C7_Witness ==
    /\ PlotChannelDrained
    /\ plot_pc = "idle"
    /\ Len(plot_got) = NUMBER_OF_DATA_POINTS + 1
    /\ Len(plot_last.new_data) = 1
    /\ x = <<Timestamp(1), Timestamp(2)>>

\* A step of a tick whose drain yields nothing: the call of animate, or its
\* return at Empty with no new data.
EmptyTickStep ==
    \/ plot_pc = "idle" /\ plot_pc' = "drain"
    \/ plot_pc = "drain" /\ plot_new_data = << >> /\ plot_pc' = "idle"

\* C8: a render tick whose drain yields zero samples leaves every series of
\* the window, the x range and both y ranges as they were.
C8_EmptyTickNoOp == [][EmptyTickStep => UNCHANGED <<line_vars, lim_vars>>]_vars

\* A tick has returned with an empty drain while the window held samples.
C8_Witness ==
    /\ plot_pc = "idle"
    /\ plot_last.returned
    /\ plot_last.new_data = << >>
    /\ x # << >>
    /\ xlim = XLim(x)

\* (lo - margin, hi + margin) over the union of the values of three series.
UnionYLim(a, b, c, floor) ==
    LET lo == SeqMin(a \o b \o c)
        hi == SeqMax(a \o b \o c)
        margin == Max((hi - lo) * PLOT_MARGIN, floor * RangeScale)
    IN  <<lo * RangeScale - margin, hi * RangeScale + margin>>

InsideYLim(lim, s) ==
    \A i \in DOMAIN s : lim[1] <= s[i] * RangeScale /\ s[i] * RangeScale <= lim[2]

\* C9: after every tick that merged a sample, the y range of a group is
\* (lo - margin, hi + margin) with lo and hi the minimum and maximum over the
\* union of the values held in its three series and margin =
\* max((hi - lo) * 10 %, floor), so every value held lies inside the range.
C9_UnionYRange ==
    x # << >> =>
        /\ accel_ylim = UnionYLim(accel_x_y, accel_y_y, accel_z_y, AccelFloor)
        /\ gyro_ylim = UnionYLim(gyro_x_y, gyro_y_y, gyro_z_y, GyroFloor)
        /\ InsideYLim(accel_ylim, accel_x_y)
        /\ InsideYLim(accel_ylim, accel_y_y)
        /\ InsideYLim(accel_ylim, accel_z_y)
        /\ InsideYLim(gyro_ylim, gyro_x_y)
        /\ InsideYLim(gyro_ylim, gyro_y_y)
        /\ InsideYLim(gyro_ylim, gyro_z_y)

YWidth(lim) == lim[2] - lim[1]

\* C10: after every tick that merged a sample, the width of each y range
\* is at least twice the floor margin of its group (acceleration 1.0, gyro
\* 20), also when all values of the group are equal.
C10_FloorMargin ==
    x # << >> =>
        /\ YWidth(accel_ylim) >= 2 * AccelFloor * RangeScale
        /\ YWidth(gyro_ylim) >= 2 * GyroFloor * RangeScale

\* All gyro values of the window are equal and the gyro range is exactly
\* twice the floor wide.
C10_Witness ==
    /\ Len(x) = NUMBER_OF_DATA_POINTS
    /\ \A i \in DOMAIN x :
          gyro_x_y[i] = 0 /\ gyro_y_y[i] = 0 /\ gyro_z_y[i] = 0
    /\ gyro_ylim = <<-GyroFloor * RangeScale, GyroFloor * RangeScale>>

\* C11: the x range handed to the renderer is (smallest timestamp of the
\* window, largest timestamp of the window) whenever the window is not
\* empty, and (0, TIME_PLOTTED) in every state in which the window is empty.
C11_XRange ==
    /\ x # << >> => xlim = <<SeqMin(x), SeqMax(x)>>
    /\ x = << >> => xlim = <<0, TIME_PLOTTED * TimeUnitsPerSecond>>

\* C12: once one channel is closed, every sample decoded afterwards is
\* still enqueued on the channel that remains open: whenever no callback is
\* in progress, the open channel has been given every decoded sample.
C12_RemainingChannelServed ==
    cb_pc = "idle" =>
        /\ (plot_closed /\ ~serial_closed) =>
              Len(serial_put) = current_datapoint
        /\ (serial_closed /\ ~plot_closed) =>
              Len(plot_put) = current_datapoint

\* A step of a render tick: the plotter's state or what it got changes.
TickStep == <<plotter_vars, plot_got>>' # <<plotter_vars, plot_got>>

\* A step of a publisher request: the websocket server's state or what it
\* got changes.
RequestStep == <<ws_vars, serial_got>>' # <<ws_vars, serial_got>>

\* C13: a step of a render tick changes nothing but the plot channel and the
\* plotter's own state, a step of a publisher request nothing but the
\* publisher channel and the websocket server's own state; neither changes
\* the other consumer's channel or state, what was put on either channel, or
\* the producer's counter and callback in progress.
C13_ConsumersIsolated ==
    [][ /\ TickStep =>
              UNCHANGED <<producer_vars, serial_buffer, serial_pipe, ws_vars,
                          plot_buffer, plot_put, serial_put, serial_got>>
        /\ RequestStep =>
              UNCHANGED <<producer_vars, plot_buffer, plot_pipe, plotter_vars,
                          serial_buffer, plot_put, serial_put, plot_got>> ]_vars

\* Both consumers have drained samples while a callback is in progress and
\* samples wait in both channels.
C13_Witness ==
    /\ cb_pc = "put_serial"
    /\ plot_pc = "drain" /\ plot_new_data # << >>
    /\ ws_pc = "drain" /\ ws_new_data # << >>
    /\ plot_pipe # << >> /\ serial_pipe # << >>

\* A drain in progress can always take its next step: get(False) returns an
\* item when the pipe holds one and raises Empty when it holds none.
DrainNeverBlocks ==
    /\ (plot_pc = "drain" /\ plot_pipe # << >>) => ENABLED animate_get
    /\ (plot_pc = "drain" /\ plot_pipe = << >>) => ENABLED animate_empty
    /\ (ws_pc = "drain" /\ serial_pipe # << >>) => ENABLED ws_get
    /\ (ws_pc = "drain" /\ serial_pipe = << >>) => ENABLED ws_send

\* C14: a drain never blocks and, however the producer's and the feeders'
\* steps fall between its steps, it ends: a tick or a request that has begun
\* its drain returns.
C14_DrainsEnd ==
    /\ []DrainNeverBlocks
    /\ (plot_pc = "drain") ~> (plot_pc = "idle")
    /\ (ws_pc = "drain") ~> (ws_pc = "idle")

\* A tick has returned with a batch of several samples and a request has
\* been answered after a drain that found the channel empty.
C14_Witness ==
    /\ plot_pc = "idle" /\ ws_pc = "idle"
    /\ plot_last.returned /\ Len(plot_last.new_data) >= 2
    /\ \E k \in DOMAIN sent : sent[k].batch = << >>

\* s is the beginning of t.
IsPrefix(s, t) == Len(s) <= Len(t) /\ SubSeq(t, 1, Len(s)) = s

\* The latest tick has returned and no tick is in progress.
TickReturned == plot_pc = "idle" /\ plot_last.returned

\* C15 as stated: the batch of a tick is what was in the plot channel when
\* its drain started, whether that is read as the readable items or as all
\* items enqueued: it holds every item readable then and no item that was
\* enqueued later.
C15_BatchIsSnapshot ==
    TickReturned =>
        /\ IsPrefix(plot_snapshot.readable, plot_last.new_data)
        /\ IsPrefix(plot_last.new_data, plot_snapshot.enqueued)

\* C15 as amended: the batch of a tick is a run of consecutive samples in
\* put order that starts with the oldest sample in the channel when the
\* drain started and holds at least every sample readable then; it may go
\* on with samples enqueued while the drain was running; every sample put
\* and not in a batch is still in the channel, in order.
C15_BatchIsRunFromSnapshot ==
    TickReturned =>
        LET batch == plot_last.new_data
            before == Len(plot_got) - Len(batch)
        IN  /\ IsPrefix(plot_snapshot.readable, batch)
            /\ before >= 0
            /\ batch = SubSeq(plot_put, before + 1, before + Len(batch))
            /\ plot_snapshot.enqueued =
                  SubSeq(plot_put, before + 1,
                         before + Len(plot_snapshot.enqueued))
            /\ plot_pipe \o plot_buffer =
                  SubSeq(plot_put, Len(plot_got) + 1, Len(plot_put))

\* A tick has returned with a batch that holds a sample put after its drain
\* started, next to samples that were readable when it started.
C15_Witness ==
    /\ TickReturned
    /\ plot_snapshot.readable # << >>
    /\ Len(plot_last.new_data) > Len(plot_snapshot.enqueued)

\* The k-th decoded sample is in time part of a batch that a tick has merged
\* into the window.
PlotSampleMerged(k) == (current_datapoint >= k) ~> (Len(Merged) >= k)

\* The k-th decoded sample is in time readable by the websocket server, and
\* a request that is being handled once it is readable drains it.
SerialSampleDrained(k) ==
    /\ (current_datapoint >= k) ~> (Len(serial_got) + Len(serial_pipe) >= k)
    /\ (ws_pc = "drain" /\ Len(serial_got) + Len(serial_pipe) >= k)
          ~> (Len(serial_got) >= k)

\* C16: every decoded sample is in time merged into the window by a tick;
\* every decoded sample is in time readable on the serial queue and is
\* drained by the request handled next; ticks go on being called and
\* returning for ever, also when no sample arrives any more.
C16_EverySampleReceived ==
    /\ \A k \in 1..MaxSamples : PlotSampleMerged(k)
    /\ \A k \in 1..MaxSamples : SerialSampleDrained(k)
    /\ []<>(plot_pc = "drain") /\ []<>(plot_pc = "idle")

\* Every sample the bounds allow has been merged by ticks and drained by
\* requests, in more than one batch each, and the channels are idle.
C16_Witness ==
    /\ Len(plot_put) = MaxSamples /\ Len(serial_put) = MaxSamples
    /\ plot_pc = "idle" /\ Len(plot_got) = MaxSamples
    /\ plot_last.returned /\ Len(plot_last.new_data) < MaxSamples
    /\ ws_pc = "idle" /\ Len(serial_got) = MaxSamples
    /\ Len(sent) >= 2 /\ \A k \in DOMAIN sent : Len(sent[k].batch) < MaxSamples

\* The seven entries at position i of the plotter's arrays are the fields of
\* the decoded sample dp.
EntriesFrom(i, dp) ==
    /\ x[i] = dp.timestamp
    /\ accel_x_y[i] = dp.accel_x
    /\ accel_y_y[i] = dp.accel_y
    /\ accel_z_y[i] = dp.accel_z
    /\ gyro_x_y[i] = dp.gyro_x
    /\ gyro_y_y[i] = dp.gyro_y
    /\ gyro_z_y[i] = dp.gyro_z

\* C17: the time array and the six value arrays of the plotter have one
\* length, and the seven entries at every position are the fields of one
\* decoded sample.
C17_SeriesAligned ==
    /\ \A k \in DOMAIN AllSeries : Len(AllSeries[k]) = Len(x)
    /\ \A i \in DOMAIN x : \E k \in DOMAIN plot_put : EntriesFrom(i, plot_put[k])

\* The window is full of samples with different values after ticks have
\* appended to it and truncated it.
C17_Witness ==
    /\ plot_pc = "idle" /\ plot_last.returned
    /\ Len(x) = NUMBER_OF_DATA_POINTS
    /\ Len(Merged) > NUMBER_OF_DATA_POINTS
    /\ Len(plot_last.new_data) < Len(Merged)
    /\ accel_x_y[1] # accel_x_y[NUMBER_OF_DATA_POINTS]
    /\ accel_x_y[1] # accel_y_y[1]

\* The frames written for a request whose drain returned samples.
NonSentinel == {k \in DOMAIN sent : sent[k].batch # << >>}

\* The sample a frame of NonSentinel carries: the last one of its batch.
Published(k) == sent[k].batch[Len(sent[k].batch)]

\* C18: over all requests, the responses that carry a sample carry samples
\* of strictly increasing index: none is published twice and none is older
\* than one published before it.
C18_PublishedIncreasing ==
    /\ \A k \in NonSentinel : sent[k].payload = Payload(Published(k))
    /\ \A j, k \in NonSentinel :
          j < k => Published(j).timestamp < Published(k).timestamp

\* Two requests have each been answered with a sample, the later one after
\* a drain of several samples.
C18_Witness ==
    /\ ws_pc = "idle"
    /\ Len(sent) = 2 /\ NonSentinel = {1, 2}
    /\ Len(sent[2].batch) >= 2
    /\ sent[1].payload # sent[2].payload

\* C19: in every state, also in the middle of a callback and after one that
\* raised part-way through its buffer, what was put on the serial queue is
\* the beginning of what was put on the plot queue and at most one sample
\* shorter; when no callback is in progress both queues have been put
\* exactly current_datapoint samples.
C19_FanoutConsistent ==
    /\ IsPrefix(serial_put, plot_put)
    /\ Len(plot_put) - Len(serial_put) <= 1
    /\ cb_pc = "idle" =>
          /\ Len(plot_put) = current_datapoint
          /\ Len(serial_put) = current_datapoint

\* In the middle of a callback whose buffer ends in a partial sample: its
\* second sample is on the plot queue and not yet on the serial queue.
C19_Witness ==
    /\ cb_pc = "put_serial"
    /\ Len(cb_floats) % FloatsPerDataPoint # 0
    /\ cb_i >= FloatsPerDataPoint
    /\ Len(plot_put) = Len(serial_put) + 1
    /\ Len(serial_put) >= 1

=============================================================================
